---- MODULE Spec2Model ----
(***************************************************************************)
(* State-machine model of src/app.py: the Flask ordering site             *)
(* (catalog of meals, session cart, checkout message, meal JSON API and   *)
(* the leaderboard API).                                                   *)
(*                                                                         *)
(* Text is a sequence of fragments.  A fragment is either the line break   *)
(* NL or a piece of text that holds no line break.  Money is counted in    *)
(* hundredths (a price of 1500.00 is 150000), so ":,.2f" is exact; float    *)
(* rounding is outside the model.  The response of checkout records the    *)
(* message; its percent-encoding into the link is not modelled.            *)
(***************************************************************************)
EXTENDS Integers, Sequences, FiniteSets, TLC

VARIABLES USE_MONGO, meals, nextId, cart, resp,
          leaderboard, savePc, saveData, saveIdx, prior, lbResp

vars == <<USE_MONGO, meals, nextId, cart, resp,
          leaderboard, savePc, saveData, saveIdx, prior, lbResp>>

boardVars == <<leaderboard, savePc, saveData, saveIdx, prior, lbResp>>

(***************************************************************************)
(* Bounds of the model.                                                    *)
(***************************************************************************)
\* number of meals ever inserted
MaxMeals == 2
\* total number of items (sum of quantities) a cart may hold
MaxQty == 2
\* hex digits of a document identifier (24 in the document store)
OidHexLen == 2
\* number of items in a leaderboard save request
MaxEntries == 2

(***************************************************************************)
(* Python values and text.                                                 *)
(***************************************************************************)
\* a str value, and None
Str(text) == [none |-> FALSE, text |-> text]
None == [none |-> TRUE, text |-> <<>>]
\* f"{v}"
Format(v) == IF v.none THEN <<"None">> ELSE v.text
NL == "\n"
Digit == <<"0", "1", "2", "3", "4", "5", "6", "7", "8", "9">>

RECURSIVE StrOfInt(_)
\* str(n) / f"{n}" of a non-negative int
StrOfInt(n) ==
    IF n < 10 THEN <<Digit[n + 1]>>
    ELSE StrOfInt(n \div 10) \o <<Digit[(n % 10) + 1]>>

RECURSIVE ZeroPad(_, _)
ZeroPad(s, w) == IF Len(s) >= w THEN s ELSE ZeroPad(<<"0">> \o s, w)

DigitVal(c) == CHOOSE d \in 0..9 : Digit[d + 1] = c
IsDigit(c) == \E d \in 0..9 : Digit[d + 1] = c

HexUpper == {"A", "B", "C", "D", "E", "F"}
HexLower == {"a", "b", "c", "d", "e", "f"}
IsHex(c) == IsDigit(c) \/ c \in HexUpper \/ c \in HexLower
HexVal(c) ==
    IF IsDigit(c) THEN DigitVal(c)
    ELSE IF c \in {"a", "A"} THEN 10
    ELSE IF c \in {"b", "B"} THEN 11
    ELSE IF c \in {"c", "C"} THEN 12
    ELSE IF c \in {"d", "D"} THEN 13
    ELSE IF c \in {"e", "E"} THEN 14
    ELSE 15

RECURSIVE DecimalValue(_)
DecimalValue(s) ==
    IF s = <<>> THEN 0
    ELSE 10 * DecimalValue(SubSeq(s, 1, Len(s) - 1)) + DigitVal(s[Len(s)])

RECURSIVE HexValue(_)
HexValue(s) ==
    IF s = <<>> THEN 0
    ELSE 16 * HexValue(SubSeq(s, 1, Len(s) - 1)) + HexVal(s[Len(s)])

\* SQLite compares a text parameter with the INTEGER column id under numeric
\* affinity: text that reads as a number is converted ('01' = 1), other text
\* equals no id.  -1 stands for "equals no id".
NumericAffinity(s) ==
    IF s # <<>> /\ \A i \in 1..Len(s) : IsDigit(s[i]) THEN DecimalValue(s) ELSE -1

\* ObjectId(s): s must be OidHexLen hex digits, else bson raises InvalidId.
ValidObjectId(s) == Len(s) = OidHexLen /\ \A i \in 1..Len(s) : IsHex(s[i])
ObjectId(s) == HexValue(s)

RECURSIVE HexDigits(_)
HexDigits(n) ==
    IF n < 16 THEN <<IF n < 10 THEN Digit[n + 1]
                     ELSE CHOOSE c \in HexLower : HexVal(c) = n>>
    ELSE HexDigits(n \div 16) \o HexDigits(n % 16)

\* str(ObjectId): the fixed-width lower-case hex form
StrOfObjectId(n) == ZeroPad(HexDigits(n), OidHexLen)

\* str(meal['_id']) if USE_MONGO else str(meal['id'])
StrOfId(n) == IF USE_MONGO THEN StrOfObjectId(n) ELSE StrOfInt(n)

(***************************************************************************)
(* Request inputs.                                                         *)
(***************************************************************************)
MealIds == 1..MaxMeals
\* the <meal_id> path segment: any text
Keys == {StrOfInt(i) : i \in MealIds} \cup {StrOfObjectId(i) : i \in MealIds}
        \cup {<<"x">>}
\* form / JSON fields of a meal
Names == {Str(<<"Jollof Rice">>)}
Prices == {150000, 250050}
\* a field of the request: absent, or present with a value
Absent == [has |-> FALSE, value |-> None]
Field(v) == [has |-> TRUE, value |-> v]
NameInputs == {Field(n) : n \in Names} \cup {Absent}
\* a price as sent: a number, or text float() cannot parse
Number(p) == [number |-> TRUE, num |-> p]
BadNumber == [number |-> FALSE, num |-> 0]
PriceInputs == {Field(Number(p)) : p \in Prices} \cup {Field(BadNumber)}
Category == "Meals"

(***************************************************************************)
(* dict helpers                                                            *)
(***************************************************************************)
EmptyDict == <<>>
DictGet(d, k, default) == IF k \in DOMAIN d THEN d[k] ELSE default
DictSet(d, k, v) == [x \in DOMAIN d \cup {k} |-> IF x = k THEN v ELSE d[x]]
DictPop(d, k) == [x \in DOMAIN d \ {k} |-> d[x]]

RECURSIVE SumQty(_, _)
SumQty(d, ks) ==
    IF ks = {} THEN 0
    ELSE LET k == CHOOSE x \in ks : TRUE IN d[k] + SumQty(d, ks \ {k})
CartSize(d) == SumQty(d, DOMAIN d)

(***************************************************************************)
(* Responses.                                                              *)
(***************************************************************************)
\* The last response.  seen is the cart the handler read from the session,
\* rows the meals it resolved.
NoResp == [op |-> "none", status |-> 0, err |-> "", seen |-> <<>>,
           rows |-> <<>>, total |-> 0, message |-> <<>>, body |-> <<>>]
Response(op, status) == [NoResp EXCEPT !.op = op, !.status = status]
Failure(op, status, err) == [Response(op, status) EXCEPT !.err = err]

\* The last response of the leaderboard API; data is the request body of a
\* save request.
NoBoardResp == [op |-> "none", status |-> 0, err |-> "", body |-> <<>>, data |-> <<>>]

Init ==
    /\ USE_MONGO \in BOOLEAN
    /\ meals = EmptyDict
    /\ nextId = 1
    /\ cart = EmptyDict
    /\ resp = NoResp
    /\ leaderboard = <<>>
    /\ savePc = "idle"
    /\ saveData = <<>>
    /\ saveIdx = 1
    /\ prior = <<>>
    /\ lbResp = NoBoardResp

(***************************************************************************)
(* Catalog store.  meals maps the identifier (the SQLite rowid, or the     *)
(* number of the ObjectId) to the stored record.                           *)
(***************************************************************************)
MealRecord(name, price) ==
    [name |-> name, description |-> <<>>, price |-> price, image |-> <<>>,
     category |-> Category]

Row(id) == [id |-> id, name |-> meals[id].name, price |-> meals[id].price]

RECURSIVE RowsAscending(_)
\* the rows with an identifier in ids, in identifier order
RowsAscending(ids) ==
    IF ids = {} THEN <<>>
    ELSE LET m == CHOOSE x \in ids : \A y \in ids : x <= y
         IN <<Row(m)>> \o RowsAscending(ids \ {m})

RECURSIVE RowsDescending(_)
RowsDescending(ids) ==
    IF ids = {} THEN <<>>
    ELSE LET m == CHOOSE x \in ids : \A y \in ids : x >= y
         IN <<Row(m)>> \o RowsDescending(ids \ {m})

\* SELECT * FROM meals ORDER BY id DESC / find().sort("_id", -1)
get_all_meals == RowsDescending(DOMAIN meals)

\* the stored identifiers a <meal_id> parameter selects
\* (WHERE id = ? / {'_id': ObjectId(meal_id)})
Selected(meal_id) ==
    IF USE_MONGO THEN {i \in DOMAIN meals : i = ObjectId(meal_id)}
    ELSE {i \in DOMAIN meals : i = NumericAffinity(meal_id)}

\* float(x) raises ValueError on text that is no number
FloatFails(x) == ~x.number

Insert(name, price) ==
    /\ nextId <= MaxMeals
    /\ meals' = DictSet(meals, nextId, MealRecord(name, price))
    /\ nextId' = nextId + 1

Update(meal_id, name, price) ==
    /\ meals' = [i \in DOMAIN meals |->
                   IF i \in Selected(meal_id)
                   THEN [meals[i] EXCEPT !.name = name, !.price = price]
                   ELSE meals[i]]
    /\ UNCHANGED nextId

Delete(meal_id) ==
    /\ meals' = [i \in DOMAIN meals \ Selected(meal_id) |-> meals[i]]
    /\ UNCHANGED nextId

Fail(op, status, err) ==
    /\ resp' = Failure(op, status, err)
    /\ UNCHANGED <<meals, nextId>>

(***************************************************************************)
(* Admin form routes.                                                      *)
(***************************************************************************)
\* POST /admin
admin(name, price) ==
    /\ IF ~name.has THEN Fail("admin", 400, "BadRequestKeyError")
       ELSE IF FloatFails(price.value) THEN Fail("admin", 500, "ValueError")
       ELSE /\ Insert(name.value, price.value.num)
            /\ resp' = Response("admin", 302)
    /\ UNCHANGED <<USE_MONGO, cart>>
    /\ UNCHANGED boardVars

\* POST /edit/<meal_id>
edit_meal(meal_id, name, price) ==
    /\ IF ~name.has THEN Fail("edit_meal", 400, "BadRequestKeyError")
       ELSE IF FloatFails(price.value) THEN Fail("edit_meal", 500, "ValueError")
       ELSE IF USE_MONGO /\ ~ValidObjectId(meal_id)
            THEN Fail("edit_meal", 500, "InvalidId")
       ELSE /\ Update(meal_id, name.value, price.value.num)
            /\ resp' = Response("edit_meal", 302)
    /\ UNCHANGED <<USE_MONGO, cart>>
    /\ UNCHANGED boardVars

\* POST /delete/<meal_id>
delete_meal(meal_id) ==
    /\ IF USE_MONGO /\ ~ValidObjectId(meal_id)
       THEN Fail("delete_meal", 500, "InvalidId")
       ELSE /\ Delete(meal_id)
            /\ resp' = Response("delete_meal", 302)
    /\ UNCHANGED <<USE_MONGO, cart>>
    /\ UNCHANGED boardVars

(***************************************************************************)
(* Cart routes.                                                            *)
(***************************************************************************)
\* add_to_cart without the "+ 1": cart[key] = cart.get(key, 1)
AddToCartNoIncrement(meal_id) ==
    /\ CartSize(cart) < MaxQty
    /\ cart' = DictSet(cart, meal_id, DictGet(cart, meal_id, 1))
    /\ resp' = Response("add_to_cart", 302)
    /\ UNCHANGED <<USE_MONGO, meals, nextId>>
    /\ UNCHANGED boardVars

\* GET /add_to_cart/<meal_id>
add_to_cart(meal_id) ==
    /\ CartSize(cart) < MaxQty
    /\ cart' = DictSet(cart, meal_id, DictGet(cart, meal_id, 0) + 1)
    /\ resp' = Response("add_to_cart", 302)
    /\ UNCHANGED <<USE_MONGO, meals, nextId>>
    /\ UNCHANGED boardVars

\* remove_from_cart that zeroes the quantity instead of deleting the key
RemoveFromCartZeroes(meal_id) ==
    /\ cart' = IF meal_id \in DOMAIN cart THEN DictSet(cart, meal_id, 0) ELSE cart
    /\ resp' = Response("remove_from_cart", 302)
    /\ UNCHANGED <<USE_MONGO, meals, nextId>>
    /\ UNCHANGED boardVars

\* remove_from_cart that drops the whole cart when the key is present
RemoveFromCartClears(meal_id) ==
    /\ cart' = IF meal_id \in DOMAIN cart THEN EmptyDict ELSE cart
    /\ resp' = Response("remove_from_cart", 302)
    /\ UNCHANGED <<USE_MONGO, meals, nextId>>
    /\ UNCHANGED boardVars

\* GET /remove_from_cart/<meal_id>
remove_from_cart(meal_id) ==
    /\ cart' = DictPop(cart, meal_id)
    /\ resp' = Response("remove_from_cart", 302)
    /\ UNCHANGED <<USE_MONGO, meals, nextId>>
    /\ UNCHANGED boardVars

\* the query of cart() and checkout(): the error it raises ("" for none) ...
QueryError(c) ==
    IF USE_MONGO /\ \E k \in DOMAIN c : ~ValidObjectId(k) THEN "InvalidId" ELSE ""

\* ... and the rows it returns
QueryRows(c) ==
    LET wanted == IF USE_MONGO THEN {ObjectId(k) : k \in DOMAIN c}
                  ELSE {NumericAffinity(k) : k \in DOMAIN c}
    IN RowsAscending(DOMAIN meals \cap wanted)

\* cart[str(meal['_id'])] / cart[str(meal['id'])] raises KeyError on a row
\* whose stringified identifier is no key of the cart
LookupError(c, rows) ==
    IF \E i \in 1..Len(rows) : StrOfId(rows[i].id) \notin DOMAIN c
    THEN "KeyError" ELSE ""

Quantity(c, row) == c[StrOfId(row.id)]

RECURSIVE SumLines(_, _)
\* sum(meal['price'] * cart[str(id)] for meal in meals)
SumLines(c, rows) ==
    IF rows = <<>> THEN 0
    ELSE rows[1].price * Quantity(c, rows[1]) + SumLines(c, Tail(rows))

\* GET /cart
cart_view ==
    /\ IF DOMAIN cart = {} THEN resp' = Response("cart", 200)
       ELSE IF QueryError(cart) # ""
            THEN resp' = [Failure("cart", 500, QueryError(cart)) EXCEPT !.seen = cart]
       ELSE IF LookupError(cart, QueryRows(cart)) # ""
            THEN resp' = [Failure("cart", 500, "KeyError") EXCEPT !.seen = cart]
       ELSE resp' = [Response("cart", 200) EXCEPT
                        !.seen = cart,
                        !.rows = QueryRows(cart),
                        !.total = SumLines(cart, QueryRows(cart))]
    /\ UNCHANGED <<USE_MONGO, meals, nextId, cart>>
    /\ UNCHANGED boardVars

(***************************************************************************)
(* Checkout message.                                                       *)
(***************************************************************************)
RECURSIVE Thousands(_)
\* the integer part under the "," format option: groups of three digits
Thousands(n) ==
    IF n < 1000 THEN StrOfInt(n)
    ELSE Thousands(n \div 1000) \o <<",">> \o ZeroPad(StrOfInt(n % 1000), 3)

\* f"{amount:,.2f}" of an amount counted in hundredths
Money(amount) ==
    Thousands(amount \div 100) \o <<".">> \o ZeroPad(StrOfInt(amount % 100), 2)

\* f"{meal['name']} x{quantity} = ₦{meal['price'] * quantity:,.2f}"
ItemText(c, row) ==
    Format(row.name) \o <<" x">> \o StrOfInt(Quantity(c, row)) \o <<" = ", "₦">>
        \o Money(row.price * Quantity(c, row))

RECURSIVE Join(_, _)
\* sep.join(texts)
Join(texts, sep) ==
    IF texts = <<>> THEN <<>>
    ELSE IF Len(texts) = 1 THEN texts[1]
    ELSE texts[1] \o sep \o Join(Tail(texts), sep)

OrderDetails(c, rows) == Join([i \in 1..Len(rows) |-> ItemText(c, rows[i])], <<NL>>)

\* the message without its "New Order:" line
MessageNoHeader(c, rows, total) ==
    OrderDetails(c, rows) \o <<NL, NL, "Total: ", "₦">> \o Money(total)

\* f"New Order:\n{order_details}\n\nTotal: ₦{total:,.2f}"
Message(c, rows, total) ==
    <<"New Order:", NL>> \o OrderDetails(c, rows)
        \o <<NL, NL, "Total: ", "₦">> \o Money(total)

\* a checkout that leaves the cart in the session
CheckoutKeepsCart(c) == c

\* session.pop('cart', None)
SessionPopCart(c) == EmptyDict

\* GET /checkout
checkout ==
    /\ IF DOMAIN cart = {}
       THEN /\ resp' = Response("checkout", 200)
            /\ UNCHANGED cart
       ELSE IF QueryError(cart) # ""
       THEN /\ resp' = [Failure("checkout", 500, QueryError(cart)) EXCEPT !.seen = cart]
            /\ UNCHANGED cart
       ELSE IF LookupError(cart, QueryRows(cart)) # ""
       THEN /\ resp' = [Failure("checkout", 500, "KeyError") EXCEPT !.seen = cart]
            /\ UNCHANGED cart
       ELSE LET rows == QueryRows(cart)
                total == SumLines(cart, rows)
            IN /\ resp' = [Response("checkout", 302) EXCEPT
                              !.seen = cart, !.rows = rows, !.total = total,
                              !.message = Message(cart, rows, total)]
               /\ cart' = SessionPopCart(cart)
    /\ UNCHANGED <<USE_MONGO, meals, nextId>>
    /\ UNCHANGED boardVars

(***************************************************************************)
(* Meal JSON API.                                                          *)
(***************************************************************************)
PyStr(s) == [type |-> "str", str |-> s, int |-> 0]
PyInt(n) == [type |-> "int", str |-> <<>>, int |-> n]

\* 'id': str(meal['_id']) if USE_MONGO else meal['id']
ApiId(id) == IF USE_MONGO THEN PyStr(StrOfObjectId(id)) ELSE PyInt(id)

ApiMeal(id) ==
    [id |-> ApiId(id), name |-> meals[id].name,
     description |-> meals[id].description, price |-> meals[id].price,
     image |-> meals[id].image, category |-> meals[id].category]

\* GET /api/meals.  A sqlite3.Row has no method get: on the relational
\* backend the first row raises AttributeError.
api_meals ==
    /\ LET rows == get_all_meals
       IN IF ~USE_MONGO /\ rows # <<>>
          THEN resp' = Failure("api_meals", 500, "AttributeError")
          ELSE resp' = [Response("api_meals", 200) EXCEPT
                           !.body = [i \in 1..Len(rows) |-> ApiMeal(rows[i].id)]]
    /\ UNCHANGED <<USE_MONGO, meals, nextId, cart>>
    /\ UNCHANGED boardVars

\* data.get(key, default)
JsonGet(field, default) == IF field.has THEN field.value ELSE default

\* POST /api/add_meal
api_add_meal(name, price) ==
    /\ IF FloatFails(JsonGet(price, Number(0)))
       THEN Fail("api_add_meal", 500, "ValueError")
       ELSE IF USE_MONGO
       THEN /\ Insert(JsonGet(name, None), JsonGet(price, Number(0)).num)
            /\ resp' = Response("api_add_meal", 200)
       ELSE Fail("api_add_meal", 500, "MongoDB not available")
    /\ UNCHANGED <<USE_MONGO, cart>>
    /\ UNCHANGED boardVars

\* POST /api/update_meal/<meal_id>
api_update_meal(meal_id, name, price) ==
    /\ IF ~price.has THEN Fail("api_update_meal", 500, "TypeError")
       ELSE IF FloatFails(price.value) THEN Fail("api_update_meal", 500, "ValueError")
       ELSE IF ~USE_MONGO THEN Fail("api_update_meal", 500, "MongoDB not available")
       ELSE IF ~ValidObjectId(meal_id) THEN Fail("api_update_meal", 500, "InvalidId")
       ELSE /\ Update(meal_id, JsonGet(name, None), price.value.num)
            /\ resp' = Response("api_update_meal", 200)
    /\ UNCHANGED <<USE_MONGO, cart>>
    /\ UNCHANGED boardVars

\* DELETE /api/delete_meal/<meal_id>
api_delete_meal(meal_id) ==
    /\ IF ~USE_MONGO THEN Fail("api_delete_meal", 500, "MongoDB not available")
       ELSE IF ~ValidObjectId(meal_id) THEN Fail("api_delete_meal", 500, "InvalidId")
       ELSE /\ Delete(meal_id)
            /\ resp' = Response("api_delete_meal", 200)
    /\ UNCHANGED <<USE_MONGO, cart>>
    /\ UNCHANGED boardVars

\* the shop: catalog administration, session cart, checkout
NextShop ==
    \/ \E k \in Keys : add_to_cart(k)
    \/ \E k \in Keys : remove_from_cart(k)
    \/ cart_view
    \/ checkout
    \/ \E n \in NameInputs, p \in PriceInputs : admin(n, p)
    \/ \E k \in Keys, n \in NameInputs, p \in PriceInputs : edit_meal(k, n, p)
    \/ \E k \in Keys : delete_meal(k)

Spec == Init /\ [][NextShop]_vars

\* the meal JSON API, with the admin form that also creates meals
NextApi ==
    \/ \E n \in NameInputs, p \in PriceInputs : admin(n, p)
    \/ api_meals
    \/ \E n \in NameInputs, p \in PriceInputs \cup {Absent} : api_add_meal(n, p)
    \/ \E k \in Keys, n \in NameInputs, p \in PriceInputs \cup {Absent} :
          api_update_meal(k, n, p)
    \/ \E k \in Keys : api_delete_meal(k)

SpecApi == Init /\ [][NextApi]_vars
(***************************************************************************)
(* Leaderboard API.  leaderboard is the collection, in insertion order.    *)
(* Requests are served by concurrent threads and the handlers take no      *)
(* lock, so a save is modelled store call by store call (savePc, saveIdx); *)
(* one save is in flight at a time.  prior is the collection as the save   *)
(* in flight (or the last one) found it, saveData its request body.        *)
(***************************************************************************)
\* one item of the posted JSON list: an object with some of the keys, or
\* something that is no object
JsonObject(keys, rank, player, score) ==
    [dict |-> TRUE, keys |-> keys, rank |-> rank, player |-> player,
     score |-> score, img |-> <<>>]
NotAnObject == [dict |-> FALSE, keys |-> {}, rank |-> 0, player |-> <<>>,
                score |-> 0, img |-> <<>>]
EntryKeys == {"rank", "player", "score", "img"}
EntryInputs ==
    {JsonObject(EntryKeys, 1, <<"Ada">>, 30), JsonObject(EntryKeys, 2, <<"Bola">>, 20),
     JsonObject({}, 0, <<>>, 0), NotAnObject}

RECURSIVE SeqsUpTo(_, _)
SeqsUpTo(S, n) ==
    IF n = 0 THEN {<<>>}
    ELSE LET shorter == SeqsUpTo(S, n - 1)
         IN shorter \cup {Append(q, x) : q \in {r \in shorter : Len(r) = n - 1}, x \in S}
SaveInputs == SeqsUpTo(EntryInputs, MaxEntries)

\* entry.get(key, default)
EntryGet(entry, key, default) == IF key \in entry.keys THEN entry[key] ELSE default

\* the document save_leaderboard inserts for an entry
Document(entry) ==
    [rank |-> EntryGet(entry, "rank", 0), player |-> EntryGet(entry, "player", <<>>),
     score |-> EntryGet(entry, "score", 0), img |-> EntryGet(entry, "img", <<>>)]

RECURSIVE InsertByRank(_, _)
InsertByRank(sorted, d) ==
    IF sorted = <<>> THEN <<d>>
    ELSE IF d.rank < sorted[1].rank THEN <<d>> \o sorted
    ELSE <<sorted[1]>> \o InsertByRank(Tail(sorted), d)

RECURSIVE SortByRank(_)
\* find().sort("rank", 1); equal ranks keep their insertion order
SortByRank(docs) ==
    IF docs = <<>> THEN <<>>
    ELSE InsertByRank(SortByRank(SubSeq(docs, 1, Len(docs) - 1)), docs[Len(docs)])

BoardResponse(op, status) == [NoBoardResp EXCEPT !.op = op, !.status = status]
BoardFailure(op, status, err, data) ==
    [NoBoardResp EXCEPT !.op = op, !.status = status, !.err = err, !.data = data]

\* GET /api/leaderboard
get_leaderboard ==
    /\ lbResp' = [BoardResponse("get_leaderboard", 200) EXCEPT
                     !.body = IF USE_MONGO THEN SortByRank(leaderboard) ELSE <<>>]
    /\ UNCHANGED <<leaderboard, savePc, saveData, saveIdx, prior>>
    /\ UNCHANGED <<USE_MONGO, meals, nextId, cart, resp>>

\* POST /api/leaderboard, up to and including delete_many({})
save_leaderboard(data) ==
    /\ savePc = "idle"
    /\ IF data = <<>>
       THEN /\ lbResp' = BoardFailure("save_leaderboard", 400, "No data received", data)
            /\ UNCHANGED <<leaderboard, savePc, saveData, saveIdx, prior>>
       ELSE IF ~USE_MONGO
       THEN /\ lbResp' = BoardFailure("save_leaderboard", 500, "MongoDB not available", data)
            /\ UNCHANGED <<leaderboard, savePc, saveData, saveIdx, prior>>
       ELSE /\ prior' = leaderboard
            /\ leaderboard' = <<>>
            /\ savePc' = "inserting"
            /\ saveData' = data
            /\ saveIdx' = 1
            /\ UNCHANGED lbResp
    /\ UNCHANGED <<USE_MONGO, meals, nextId, cart, resp>>

\* one turn of "for entry in data": insert_one, or the AttributeError of
\* entry.get on an item that is no object; after the last entry, the response
save_insert ==
    /\ savePc = "inserting"
    /\ IF saveIdx > Len(saveData)
       THEN /\ lbResp' = [BoardResponse("save_leaderboard", 200) EXCEPT !.data = saveData]
            /\ savePc' = "idle"
            /\ UNCHANGED <<leaderboard, saveIdx>>
       ELSE IF ~saveData[saveIdx].dict
       THEN /\ lbResp' = BoardFailure("save_leaderboard", 500, "AttributeError", saveData)
            /\ savePc' = "idle"
            /\ UNCHANGED <<leaderboard, saveIdx>>
       ELSE /\ leaderboard' = Append(leaderboard, Document(saveData[saveIdx]))
            /\ saveIdx' = saveIdx + 1
            /\ UNCHANGED <<savePc, lbResp>>
    /\ UNCHANGED <<saveData, prior>>
    /\ UNCHANGED <<USE_MONGO, meals, nextId, cart, resp>>

\* insert_one raises (the store fails): except Exception -> 500
save_insert_fails ==
    /\ savePc = "inserting"
    /\ saveIdx <= Len(saveData)
    /\ lbResp' = BoardFailure("save_leaderboard", 500, "PyMongoError", saveData)
    /\ savePc' = "idle"
    /\ UNCHANGED <<leaderboard, saveData, saveIdx, prior>>
    /\ UNCHANGED <<USE_MONGO, meals, nextId, cart, resp>>

NextBoard ==
    \/ get_leaderboard
    \/ \E data \in SaveInputs : save_leaderboard(data)
    \/ save_insert
    \/ save_insert_fails

SpecBoard == Init /\ [][NextBoard]_vars

(***************************************************************************)
(* Properties of the shop (specification Spec).                            *)
(***************************************************************************)
CheckedOut == resp.op = "checkout" /\ resp.status = 302

\* C1: after a successful checkout (a checkout of a non-empty cart that built
\* the message and redirected) the session cart is empty, whatever it held.
C1_CartEmptyAfterCheckout == CheckedOut => cart = EmptyDict

\* a successful checkout of a cart that held a resolved meal and a stale entry
C1_Witness ==
    /\ CheckedOut
    /\ cart = EmptyDict
    /\ resp.rows # <<>>
    /\ Cardinality(DOMAIN resp.seen) > Len(resp.rows)

RECURSIVE SumOver(_, _)
SumOver(c, ids) ==
    IF ids = {} THEN 0
    ELSE LET i == CHOOSE x \in ids : TRUE
         IN meals[i].price * c[StrOfId(i)] + SumOver(c, ids \ {i})

\* the sum of price * quantity over the meals whose identifier is a key of
\* cart c and present in the catalog
ExpectedTotal(c) == SumOver(c, {i \in DOMAIN meals : StrOfId(i) \in DOMAIN c})

\* C2: for every cart and catalog, the cart view and checkout raise no error
\* and their total is the sum of price * quantity over exactly the meals that
\* are both a key of the cart and in the catalog.
C2_TotalIsSumOverCartAndCatalog ==
    resp.op \in {"cart", "checkout"} =>
        /\ resp.err = ""
        /\ resp.total = ExpectedTotal(resp.seen)

\* C5: every key of the session cart maps to an integer quantity >= 1.
C5_QuantitiesPositive == \A k \in DOMAIN cart : cart[k] \in Nat /\ cart[k] >= 1

\* after a removal, a cart that still holds an entry of quantity 2
C5_Witness ==
    /\ resp.op = "remove_from_cart"
    /\ \E k \in DOMAIN cart : cart[k] = 2

\* C6: add_to_cart(meal_id) raises the quantity under meal_id by exactly 1
\* (from 0 when absent) and leaves every other entry unchanged.
C6_AddIncrementsByOne ==
    [][\A k \in Keys : add_to_cart(k) =>
          /\ DOMAIN cart' = DOMAIN cart \cup {k}
          /\ cart'[k] = DictGet(cart, k, 0) + 1
          /\ \A j \in DOMAIN cart \ {k} : cart'[j] = cart[j]]_vars

\* the same identifier added twice to an empty cart: one entry, quantity 2
C6_Witness ==
    /\ resp.op = "add_to_cart"
    /\ \E k \in Keys : DOMAIN cart = {k} /\ cart[k] = 2

\* C7: remove_from_cart(meal_id) raises no error; with an absent meal_id the
\* cart is unchanged, with a present one that key alone is deleted.
C7_RemoveDeletesOnlyThatKey ==
    [][\A k \in Keys : remove_from_cart(k) =>
          /\ resp'.status = 302 /\ resp'.err = ""
          /\ k \notin DOMAIN cart => cart' = cart
          /\ DOMAIN cart' = DOMAIN cart \ {k}
          /\ \A j \in DOMAIN cart \ {k} : cart'[j] = cart[j]]_vars

\* a removal that left another entry in place
C7_Witness ==
    /\ resp.op = "remove_from_cart"
    /\ resp.status = 302
    /\ \E k \in Keys : k \in DOMAIN cart /\ cart[k] = MaxQty - 1

RECURSIVE Lines(_)
\* text.split("\n")
Lines(text) ==
    IF \A i \in 1..Len(text) : text[i] # NL THEN <<text>>
    ELSE LET i == CHOOSE x \in 1..Len(text) :
                     text[x] = NL /\ \A y \in 1..(x - 1) : text[y] # NL
         IN <<SubSeq(text, 1, i - 1)>> \o Lines(SubSeq(text, i + 1, Len(text)))

\* "<name> x<quantity> = <currency><amount>" for each resolved meal
ItemLines == [i \in 1..Len(resp.rows) |-> ItemText(resp.seen, resp.rows[i])]
\* "Total: <currency><total>"
TotalLine == <<"Total: ", "₦">> \o Money(resp.total)
BlankLine == <<>>

ApiFields == {"id", "name", "description", "price", "image", "category"}

\* C8: the meal list API returns objects with the fields id, name,
\* description, price, image, category under either backend, and every id is
\* a string.
C8_ApiMealsUniform ==
    resp.op = "api_meals" =>
        /\ resp.status = 200
        /\ Len(resp.body) = Cardinality(DOMAIN meals)
        /\ \A i \in 1..Len(resp.body) :
              /\ DOMAIN resp.body[i] = ApiFields
              /\ resp.body[i].id.type = "str"

\* a create request that lacks the name, or whose price is no number
InvalidCreate(name, price) == ~name.has \/ (price.has /\ ~price.value.number)
Rejected == resp'.status \in 400..499 /\ meals' = meals

\* C9: a create request that lacks the name, or whose price cannot be parsed,
\* gets a 4xx response and inserts no meal.
C9_InvalidCreateRejected ==
    [][/\ \A n \in NameInputs, p \in PriceInputs \cup {Absent} :
            api_add_meal(n, p) /\ InvalidCreate(n, p) => Rejected
       /\ \A n \in NameInputs, p \in PriceInputs :
            admin(n, p) /\ InvalidCreate(n, p) => Rejected]_vars
(***************************************************************************)
(* Properties of the leaderboard (specification SpecBoard).                *)
(***************************************************************************)
\* the complete set a save request asks for
NewEntries == [i \in 1..Len(saveData) |-> Document(saveData[i])]

\* C3: replace-all is atomic for the caller: every listing, also one taken
\* while a save runs or after a save failed part-way, returns the complete
\* prior entries or the complete new entries.
C3_ListSeesPriorOrNew ==
    [][get_leaderboard /\ USE_MONGO =>
          lbResp'.body \in {SortByRank(prior), SortByRank(NewEntries)}]_vars

\* C4: for any prior contents, saving the empty sequence and then listing
\* returns the empty sequence.
C4_EmptySaveThenListIsEmpty ==
    [][(/\ lbResp.op = "save_leaderboard"
        /\ lbResp.data = <<>>
        /\ savePc = "idle"
        /\ get_leaderboard) => lbResp'.body = <<>>]_vars
====
